---- MODULE Spec2Model ----
(***************************************************************************)
(* Retrieval-augmented completion service: the conversation store          *)
(* (service/conversation_manager.py), the prompt builder and single-shot   *)
(* orchestrator (service/rag_service.py) and the HTTP streaming generator  *)
(* (service/api.py).                                                       *)
(*                                                                         *)
(* Text is a sequence of one-character (or one-token) strings, so that     *)
(* Python's str concatenation is \o.  Three specifications share the       *)
(* variables:                                                              *)
(*   StoreSpec   the ConversationManager API called directly               *)
(*   PromptSpec  RAGService._create_messages applied to bounded inputs     *)
(*   Spec        the service: requests interleaving on the event loop      *)
(***************************************************************************)
EXTENDS Integers, Sequences, FiniteSets, TLC

VARIABLES
    history,        \* ConversationManager._history: client id -> list of messages
    added,          \* history variable: client ids that ever had a message added
    lastOp,         \* the last direct call and what it returned
    indexLoaded,    \* RAGService.index is not None
    cur,            \* the request running on the event loop, 0 when it is free
    pc,             \* per request: position in its handler
    kind,           \* per request: "stream", "single", "cstream" or "none"
    client,         \* per request: client_id argument
    query,          \* per request: query argument
    incl,           \* per request: include_history argument
    ctx,            \* per request: formatted_context local
    prompt,         \* per request: messages sent to the model backend
    idx,            \* per request: assistant_message_index local (-1 is None)
    contentYielded, \* per request: content_yielded local
    out,            \* per request: byte chunks yielded to the caller, in order
    npulled,        \* per request: chunks taken from the backend's stream so far
    pulled,         \* per request: the deltas with content among them (history variable)
    committed,      \* per request: assistant text it wrote to the store (history variable)
    result,         \* per request: what create_completion returned
    serial,         \* history variable: requests begun after every earlier one had ended
    cleared,        \* history variable: requests whose client was cleared since they began
    snap,           \* the list last returned by a read, as its holder sees it now
    lock,           \* the task holding ConversationManager._lock, 0 when it is free
    bypass          \* requests that wrote to _history without holding the lock

vars == <<history, added, lastOp, indexLoaded, cur, pc, kind, client, query, incl,
          ctx, prompt, idx, contentYielded, out, npulled, pulled, committed, result,
          serial, cleared, snap, lock, bypass>>

reqVars == <<indexLoaded, cur, pc, kind, client, query, incl, ctx, prompt, idx,
             contentYielded, out, npulled, pulled, committed, result, serial, cleared,
             lock, bypass>>

(***************************************************************************)
(* Bounds                                                                  *)
(***************************************************************************)
NumReqs == 2        \* requests in one run of the service
MaxDeltas == 2      \* chunks the backend emits for one streaming request
MaxHist == 2        \* messages per client when the store is driven directly
MaxText == 2        \* characters in one message when the store is driven directly
MaxLongHist == 14   \* longest stored history a prompt is built from
MaxTurnsArg == 3    \* largest max_turns passed to get_formatted_history directly

Reqs == 1 .. NumReqs
Clients == {"u1", "u2"}
NoClient == ""      \* a falsy client_id (None or "")
Roles == {"system", "user", "assistant"}

(***************************************************************************)
(* Text                                                                    *)
(***************************************************************************)
Queries == {<< >>, <<"q">>}
StoreContents == {<<"a">>}
PromptContents == {<<"q">>, <<"a">>}

Last(s) == s[Len(s)]

RECURSIVE Flatten(_)
Flatten(ss) == IF ss = << >> THEN << >> ELSE Head(ss) \o Flatten(Tail(ss))

\* Python's s[i:] for a list s and an integer i
SliceFrom(s, i) ==
    LET start == IF i < 0 THEN (IF Len(s) + i < 0 THEN 0 ELSE Len(s) + i)
                 ELSE (IF i > Len(s) THEN Len(s) ELSE i)
    IN  SubSeq(s, start + 1, Len(s))

Msg(role, content) == [role |-> role, content |-> content]
NotSystem(m) == m.role # "system"

(***************************************************************************)
(* ConversationManager (service/conversation_manager.py).  _history is a   *)
(* defaultdict(list): reading a missing key through [] creates it.         *)
(***************************************************************************)
Item(h, c) == IF c \in DOMAIN h THEN h[c] ELSE << >>
SetItem(h, c, s) == [x \in (DOMAIN h) \cup {c} |-> IF x = c THEN s ELSE h[x]]

add_message(h, c, role, content) ==
    SetItem(h, c, Append(Item(h, c), Msg(role, content)))

\* an add_partial_response that always starts a new assistant message
add_partial_response_new_message(h, c, content) ==
    SetItem(h, c, Append(Item(h, c), Msg("assistant", content)))

add_partial_response(h, c, content) ==
    LET s == Item(h, c)
    IN  IF s # << >> /\ Last(s).role = "assistant"
        THEN SetItem(h, c, [s EXCEPT ![Len(s)].content = @ \o content])
        ELSE SetItem(h, c, Append(s, Msg("assistant", content)))

get_history(h, c, include_system) ==
    IF c \notin DOMAIN h THEN << >>
    ELSE IF ~include_system THEN SelectSeq(h[c], NotSystem)
    ELSE h[c]

\* a clear_history that reports success for every client id
clear_history_ret_always(h, c) == TRUE

clear_history_ret(h, c) == c \in DOMAIN h

\* a clear_history that empties every client's list
clear_history_all(h, c) == [x \in DOMAIN h |-> << >>]

clear_history(h, c) == IF c \in DOMAIN h THEN SetItem(h, c, << >>) ELSE h

\* a get_formatted_history that keeps stored system messages
get_formatted_history_unfiltered(h, c, max_turns) ==
    IF c \notin DOMAIN h THEN << >>
    ELSE IF Len(h[c]) > max_turns THEN SliceFrom(h[c], 0 - max_turns) ELSE h[c]

\* a get_formatted_history without the max_turns window
get_formatted_history_unbounded(h, c, max_turns) ==
    IF c \notin DOMAIN h THEN << >> ELSE SelectSeq(h[c], NotSystem)

get_formatted_history(h, c, max_turns) ==
    IF c \notin DOMAIN h THEN << >>
    ELSE LET hist == SelectSeq(h[c], NotSystem)
         IN  IF Len(hist) > max_turns THEN SliceFrom(hist, 0 - max_turns) ELSE hist

DefaultMaxTurns == 10

(***************************************************************************)
(* Retrieval policy (RAGService._retrieve_context, _format_context).       *)
(* Scores and thresholds are tenths: 7 stands for 0.7.  A formatted        *)
(* context is a Python value: a str, or the bool False.                    *)
(***************************************************************************)
Str(t) == [isFalse |-> FALSE, text |-> t]
PyFalse == [isFalse |-> TRUE, text |-> << >>]
Truthy(context) == ~context.isFalse /\ context.text # << >>

DefaultSimilarityThreshold == 7
NoSource == "-"     \* a node whose metadata has no "source" key

Node(text, source, score) == [text |-> text, source |-> source, score |-> score]

\* a filter that also drops a candidate whose score equals the threshold
RECURSIVE FilterNodes_strict(_, _)
FilterNodes_strict(nodes, similarity_threshold) ==
    IF nodes = << >> THEN << >>
    ELSE IF Head(nodes).score <= similarity_threshold
         THEN FilterNodes_strict(Tail(nodes), similarity_threshold)
         ELSE <<Head(nodes)>> \o FilterNodes_strict(Tail(nodes), similarity_threshold)

\* a filter with the comparison turned round: it keeps the low scores
RECURSIVE FilterNodes_inverted(_, _)
FilterNodes_inverted(nodes, similarity_threshold) ==
    IF nodes = << >> THEN << >>
    ELSE IF Head(nodes).score > similarity_threshold
         THEN FilterNodes_inverted(Tail(nodes), similarity_threshold)
         ELSE <<Head(nodes)>> \o FilterNodes_inverted(Tail(nodes), similarity_threshold)

RECURSIVE FilterNodes(_, _)
FilterNodes(nodes, similarity_threshold) ==
    IF nodes = << >> THEN << >>
    ELSE IF Head(nodes).score < similarity_threshold
         THEN FilterNodes(Tail(nodes), similarity_threshold)
         ELSE <<Head(nodes)>> \o FilterNodes(Tail(nodes), similarity_threshold)

Ordinal(i) == CASE i = 1 -> "1" [] i = 2 -> "2" [] i = 3 -> "3" [] OTHER -> "n"

RECURSIVE FormatFrom(_, _)
FormatFrom(contexts, i) ==
    IF i > Len(contexts) THEN << >>
    ELSE <<"Context ", Ordinal(i), "(Source:",
           IF contexts[i].source = NoSource THEN "Unknown source" ELSE contexts[i].source,
           "):\n">> \o contexts[i].text \o <<"\n\n">> \o FormatFrom(contexts, i + 1)

\* a _format_context that returns the header alone when nothing was retrieved
format_context_header_only(contexts) ==
    Str(<<"The following is contextual information related to the query:\n\n">>
        \o FormatFrom(contexts, 1))

format_context(contexts) ==
    IF contexts = << >> THEN PyFalse
    ELSE Str(<<"The following is contextual information related to the query:\n\n">>
             \o FormatFrom(contexts, 1))

\* the (results, formatted_context) pair of _retrieve_context
retrieve_context(loaded, nodes, similarity_threshold) ==
    IF ~loaded THEN [results |-> << >>, formatted |-> Str(<< >>)]
    ELSE LET results == FilterNodes(nodes, similarity_threshold)
         IN  [results |-> results, formatted |-> format_context(results)]

(***************************************************************************)
(* Prompt builder (RAGService._create_messages)                            *)
(***************************************************************************)
SystemPrompt == <<"SYS">>

ContextTurn(context, q) ==
    context.text \o <<"\n\n[query:]\n">> \o q \o <<"\n\n[answer from context]">>

\* a _create_messages that appends the bare query without looking at the
\* last history entry
create_messages_no_dedupe(h, q, context, client_id, include_history) ==
    LET system == Msg("system", SystemPrompt)
        hist == IF ~include_history \/ client_id = NoClient THEN << >>
                ELSE get_formatted_history(h, client_id, DefaultMaxTurns)
    IN  IF ~Truthy(context) THEN <<system>> \o hist \o <<Msg("user", q)>>
        ELSE IF ~include_history \/ client_id = NoClient
             THEN <<system, Msg("user", ContextTurn(context, q))>>
             ELSE <<system>> \o hist

create_messages(h, q, context, client_id, include_history) ==
    LET system == Msg("system", SystemPrompt)
        base_messages ==
            IF ~Truthy(context) THEN <<system>>
            ELSE <<system, Msg("user", ContextTurn(context, q))>>
    IN  IF ~include_history \/ client_id = NoClient
        THEN IF ~Truthy(context) THEN Append(base_messages, Msg("user", q))
             ELSE base_messages
        ELSE LET hist == get_formatted_history(h, client_id, DefaultMaxTurns)
                 complete_messages == <<base_messages[1]>> \o hist
             IN  IF ~Truthy(context)
                 THEN IF hist # << >> /\ Last(hist).role = "user"
                                      /\ Last(hist).content = q
                      THEN complete_messages
                      ELSE Append(complete_messages, Msg("user", q))
                 ELSE complete_messages

\* RAGService._message_exists: scans the whole list and creates no key
message_exists(h, c, role, content) ==
    IF c \notin DOMAIN h THEN FALSE
    ELSE \E i \in 1 .. Len(h[c]) : h[c][i].role = role /\ h[c][i].content = content

(***************************************************************************)
(* Retrieval inputs and the prompt of single-shot mode                     *)
(* (RAGService.create_completion, lines 426-451)                           *)
(***************************************************************************)
ApiDefaultThreshold == 20

\* a blank test without the strip(): only the empty string is blank
Blank_empty_only(q) == q = << >>

Whitespace == {" "}
Blank(q) == \A i \in 1 .. Len(q) : q[i] \in Whitespace

\* what the retriever returns for a query: candidates by descending score
NodeLists ==
    { << >>,
      <<Node(<<"t">>, "doc", 9)>>,
      <<Node(<<"t">>, "doc", 9), Node(<<"u">>, NoSource, 5)>> }

Thresholds == {DefaultSimilarityThreshold, ApiDefaultThreshold}

\* lines 436-451: the messages create_completion sends
completion_context(loaded, q, nodes, similarity_threshold) ==
    IF Blank(q) THEN Str(<< >>)
    ELSE retrieve_context(loaded, nodes, similarity_threshold).formatted

completion_messages(h, loaded, q, nodes, similarity_threshold, c, include_history) ==
    IF Blank(q) THEN create_messages(h, << >>, Str(<< >>), c, include_history)
    ELSE create_messages(h, q,
                         retrieve_context(loaded, nodes, similarity_threshold).formatted,
                         c, include_history)

\* thresholds and queries for the retrieval pipeline applied directly
PromptThresholds == {0, 5, DefaultSimilarityThreshold, 9, ApiDefaultThreshold}
PromptQueries == {<< >>, <<" ">>, <<"q">>}

(***************************************************************************)
(* Initial values of the request variables                                 *)
(***************************************************************************)
NoResult == [kind |-> "none", completion |-> << >>]
NoOp == [op |-> "none"]

ReqIdle ==
    /\ cur = 0
    /\ pc = [r \in Reqs |-> "idle"]
    /\ kind = [r \in Reqs |-> "none"]
    /\ client = [r \in Reqs |-> NoClient]
    /\ query = [r \in Reqs |-> << >>]
    /\ incl = [r \in Reqs |-> TRUE]
    /\ ctx = [r \in Reqs |-> Str(<< >>)]
    /\ prompt = [r \in Reqs |-> << >>]
    /\ idx = [r \in Reqs |-> -1]
    /\ contentYielded = [r \in Reqs |-> FALSE]
    /\ out = [r \in Reqs |-> << >>]
    /\ npulled = [r \in Reqs |-> 0]
    /\ pulled = [r \in Reqs |-> << >>]
    /\ committed = [r \in Reqs |-> << >>]
    /\ result = [r \in Reqs |-> NoResult]
    /\ serial = {}
    /\ cleared = {}
    /\ lock = 0
    /\ bypass = {}

EmptyStore == [c \in {} |-> << >>]

(***************************************************************************)
(* StoreSpec: the ConversationManager API called directly                  *)
(***************************************************************************)
\* add_message takes any str as role
RoleInputs == Roles \cup {"tool"}

\* A list returned by a read is a new list of the stored dict objects: refs
\* are their positions in the client's stored list (empty once clear_history
\* has replaced that list), at is what was returned, now is what the holder
\* of the returned list reads from it
NoSnap == [client |-> NoClient, refs |-> << >>, at |-> << >>, now |-> << >>]

RECURSIVE RefsFrom(_, _)
RefsFrom(s, i) ==
    IF i > Len(s) THEN << >>
    ELSE (IF NotSystem(s[i]) THEN <<i>> ELSE << >>) \o RefsFrom(s, i + 1)

FilteredRefs(h, c) == RefsFrom(Item(h, c), 1)
AllRefs(h, c) == [i \in 1 .. Len(Item(h, c)) |-> i]

Snapshot(c, refs, h) ==
    LET msgs == [k \in 1 .. Len(refs) |-> Item(h, c)[refs[k]]]
    IN  [client |-> c, refs |-> refs, at |-> msgs, now |-> msgs]

\* add_partial_response grows the last dict in place (line 27): a returned
\* list that holds that dict shows the longer content
snap_after_partial(sn, h, c, content) ==
    LET s == Item(h, c)
    IN  IF sn.client = c /\ s # << >> /\ Last(s).role = "assistant"
        THEN [sn EXCEPT !.now = [k \in 1 .. Len(sn.now) |->
                                    IF k <= Len(sn.refs) /\ sn.refs[k] = Len(s)
                                    THEN [sn.now[k] EXCEPT !.content = @ \o content]
                                    ELSE sn.now[k]]]
        ELSE sn

\* clear_history binds the key to a new list (line 47): the dicts of a
\* returned list are no longer in the store
snap_after_clear(sn, h, c) ==
    IF sn.client = c /\ c \in DOMAIN h THEN [sn EXCEPT !.refs = << >>] ELSE sn

TextRoom(h, c, content) ==
    LET s == Item(h, c)
    IN  IF s # << >> /\ Last(s).role = "assistant"
        THEN Len(Last(s).content) + Len(content) <= MaxText
        ELSE Len(s) < MaxHist

AddMessage(c, role, content) ==
    /\ Len(Item(history, c)) < MaxHist
    /\ history' = add_message(history, c, role, content)
    /\ added' = added \cup {c}
    /\ lastOp' = [op |-> "add_message", client |-> c]
    /\ UNCHANGED <<snap, reqVars>>

AddPartialResponse(c, content) ==
    /\ TextRoom(history, c, content)
    /\ history' = add_partial_response(history, c, content)
    /\ added' = added \cup {c}
    /\ lastOp' = [op |-> "add_partial_response", client |-> c]
    /\ UNCHANGED <<snap, reqVars>>

GetHistory(c, include_system) ==
    /\ lastOp' = [op |-> "get_history", client |-> c,
                  include_system |-> include_system,
                  hist |-> get_history(history, c, include_system)]
    /\ UNCHANGED <<history, added, snap, reqVars>>

\* repeat: the call directly before this one was clear_history on the same
\* client, made when that client had recorded messages
ClearHistory(c) ==
    /\ history' = clear_history(history, c)
    /\ lastOp' = [op |-> "clear_history", client |-> c,
                  ok |-> clear_history_ret(history, c),
                  hadMessages |-> Item(history, c) # << >>,
                  repeat |-> /\ lastOp.op = "clear_history"
                             /\ lastOp.client = c
                             /\ lastOp.hadMessages]
    /\ UNCHANGED <<added, snap, reqVars>>

GetFormattedHistory(c, max_turns) ==
    /\ lastOp' = [op |-> "get_formatted_history", client |-> c,
                  max_turns |-> max_turns,
                  hist |-> get_formatted_history(history, c, max_turns)]
    /\ UNCHANGED <<history, added, snap, reqVars>>

StoreInit ==
    /\ history = EmptyStore
    /\ added = {}
    /\ lastOp = NoOp
    /\ snap = NoSnap
    /\ indexLoaded = TRUE
    /\ ReqIdle

StoreNext ==
    \/ \E c \in Clients, role \in Roles, content \in StoreContents :
          AddMessage(c, role, content)
    \/ \E c \in Clients, content \in StoreContents : AddPartialResponse(c, content)
    \/ \E c \in Clients, include_system \in BOOLEAN : GetHistory(c, include_system)
    \/ \E c \in Clients : ClearHistory(c)
    \/ \E c \in Clients, max_turns \in (0 .. MaxTurnsArg) \cup {DefaultMaxTurns} :
          GetFormattedHistory(c, max_turns)

StoreSpec == StoreInit /\ [][StoreNext]_vars

(***************************************************************************)
(* SnapshotSpec: a caller passes any role string to add_message, and keeps *)
(* the list a read returned while the store is written to                  *)
(***************************************************************************)
HeldGetHistory(c, include_system) ==
    /\ snap' = Snapshot(c, IF c \notin DOMAIN history THEN << >>
                           ELSE IF ~include_system THEN FilteredRefs(history, c)
                           ELSE AllRefs(history, c), history)
    /\ UNCHANGED <<history, added, lastOp, reqVars>>

HeldGetFormattedHistory(c, max_turns) ==
    /\ snap' = Snapshot(c, IF c \notin DOMAIN history THEN << >>
                           ELSE IF Len(FilteredRefs(history, c)) > max_turns
                           THEN SliceFrom(FilteredRefs(history, c), 0 - max_turns)
                           ELSE FilteredRefs(history, c), history)
    /\ UNCHANGED <<history, added, lastOp, reqVars>>

HeldAddMessage(c, role, content) ==
    /\ Len(Item(history, c)) < MaxHist
    /\ history' = add_message(history, c, role, content)
    /\ added' = added \cup {c}
    /\ UNCHANGED <<snap, lastOp, reqVars>>

HeldAddPartialResponse(c, content) ==
    /\ TextRoom(history, c, content)
    /\ history' = add_partial_response(history, c, content)
    /\ added' = added \cup {c}
    /\ snap' = snap_after_partial(snap, history, c, content)
    /\ UNCHANGED <<lastOp, reqVars>>

HeldClearHistory(c) ==
    /\ history' = clear_history(history, c)
    /\ snap' = snap_after_clear(snap, history, c)
    /\ UNCHANGED <<added, lastOp, reqVars>>

SnapshotNext ==
    \/ \E c \in Clients, include_system \in BOOLEAN : HeldGetHistory(c, include_system)
    \/ \E c \in Clients, max_turns \in (0 .. MaxTurnsArg) \cup {DefaultMaxTurns} :
          HeldGetFormattedHistory(c, max_turns)
    \/ \E c \in Clients, role \in RoleInputs, content \in StoreContents :
          HeldAddMessage(c, role, content)
    \/ \E c \in Clients, content \in StoreContents : HeldAddPartialResponse(c, content)
    \/ \E c \in Clients : HeldClearHistory(c)

SnapshotSpec == StoreInit /\ [][SnapshotNext]_vars

(***************************************************************************)
(* PromptSpec: _create_messages applied to bounded histories and inputs    *)
(***************************************************************************)
PromptMessages == {Msg(role, content) : role \in Roles, content \in PromptContents}

PromptHistories ==
    UNION {[1 .. n -> PromptMessages] : n \in 0 .. MaxHist}

PromptContexts == {PyFalse, Str(<< >>), Str(<<"CTX">>)}

CreateMessages(q, context, c, include_history) ==
    /\ lastOp' = [op |-> "create_messages", query |-> q, context |-> context,
                  client |-> c, include_history |-> include_history,
                  messages |-> create_messages(history, q, context, c, include_history)]
    /\ UNCHANGED <<history, added, snap, reqVars>>

PromptInit ==
    /\ \E s \in PromptHistories : history = SetItem(EmptyStore, "u1", s)
    /\ added = {"u1"}
    /\ lastOp = NoOp
    /\ snap = NoSnap
    /\ indexLoaded = TRUE
    /\ ReqIdle

PromptNext ==
    \E q \in {<< >>, <<"q">>, <<"p">>}, context \in PromptContexts,
       c \in Clients \cup {NoClient}, include_history \in BOOLEAN :
          CreateMessages(q, context, c, include_history)

PromptSpec == PromptInit /\ [][PromptNext]_vars

(***************************************************************************)
(* LongPromptSpec: _create_messages on histories longer than the window of *)
(* get_formatted_history.  Message i of a stored history has a content of  *)
(* its own; system messages are spread through it.                         *)
(***************************************************************************)
LongContent(i) == [j \in 1 .. i |-> "x"]

LongRole(i, k) ==
    IF (i + k) % 4 = 0 THEN "system"
    ELSE IF i % 2 = 1 THEN "user" ELSE "assistant"

LongHistory(n, k) == [i \in 1 .. n |-> Msg(LongRole(i, k), LongContent(i))]

LongPromptInit ==
    /\ \E n \in 0 .. MaxLongHist, k \in 0 .. 2 :
          history = SetItem(EmptyStore, "u1", LongHistory(n, k))
    /\ added = {"u1"}
    /\ lastOp = NoOp
    /\ snap = NoSnap
    /\ indexLoaded = TRUE
    /\ ReqIdle

LongPromptSpec == LongPromptInit /\ [][PromptNext]_vars

(***************************************************************************)
(* RetrievalSpec: the retrieval pipeline of create_completion applied to   *)
(* bounded inputs.  The initial state holds the arguments of one call.     *)
(***************************************************************************)
RetrievalArgs ==
    [op : {"args"}, loaded : BOOLEAN, query : PromptQueries, nodes : NodeLists,
     threshold : PromptThresholds, client : Clients \cup {NoClient},
     include_history : BOOLEAN]

\* RAGService._retrieve_context applied to what the retriever returned
RetrieveContext ==
    /\ lastOp.op = "args"
    /\ lastOp' = [op |-> "retrieve_context", loaded |-> lastOp.loaded,
                  nodes |-> lastOp.nodes, threshold |-> lastOp.threshold,
                  results |-> retrieve_context(lastOp.loaded, lastOp.nodes,
                                               lastOp.threshold).results,
                  formatted |-> retrieve_context(lastOp.loaded, lastOp.nodes,
                                                 lastOp.threshold).formatted]
    /\ UNCHANGED <<history, added, snap, reqVars>>

\* create_completion, lines 436-451: retrieval (skipped for a blank query)
\* and the messages built from its result
CompletionMessages ==
    /\ lastOp.op = "args"
    /\ lastOp' = [op |-> "completion_messages", loaded |-> lastOp.loaded,
                  query |-> lastOp.query, nodes |-> lastOp.nodes,
                  threshold |-> lastOp.threshold, client |-> lastOp.client,
                  include_history |-> lastOp.include_history,
                  formatted |-> completion_context(lastOp.loaded, lastOp.query,
                                                   lastOp.nodes, lastOp.threshold),
                  messages |-> completion_messages(history, lastOp.loaded, lastOp.query,
                                                   lastOp.nodes, lastOp.threshold,
                                                   lastOp.client, lastOp.include_history)]
    /\ UNCHANGED <<history, added, snap, reqVars>>

RetrievalInit ==
    /\ \E s \in PromptHistories : history = SetItem(EmptyStore, "u1", s)
    /\ added = {"u1"}
    /\ lastOp \in RetrievalArgs
    /\ snap = NoSnap
    /\ indexLoaded = TRUE
    /\ ReqIdle

RetrievalNext == RetrieveContext \/ CompletionMessages

RetrievalSpec == RetrievalInit /\ [][RetrievalNext]_vars

(***************************************************************************)
(* The service.  Handlers run on one event loop: a handler keeps the loop  *)
(* (cur) until it returns or reaches a yield; the backend and retriever    *)
(* calls are synchronous and do not release it.                            *)
(***************************************************************************)
\* one element of the backend's stream: delta.content is None (has = FALSE) or a str
Chunk(has, text) == [has |-> has, text |-> text]
Chunks == {Chunk(FALSE, << >>), Chunk(TRUE, << >>), Chunk(TRUE, <<"a">>), Chunk(TRUE, <<"b">>)}
Answers == {<<"a">>}

WarningText == <<"[warning: vector index not loaded]">>
FallbackText == <<"[no reply generated]">>
BackendError == <<"backend">>
RetrieverError == <<"retriever">>
IndexError == <<"list index out of range">>
StreamErrorText(e) == <<"[stream error] ">> \o e
CompletionErrorText(e) == <<"[completion error] ">> \o e

\* yield text.encode('utf-8') + b'\n'
Frame(text) == text \o <<"\n">>

\* a `with self._lock:` block that keeps the lock after its body
with_lock_kept(holder) == holder

\* the holder of _lock after task `holder` has run a `with self._lock:` block
\* (every store method is one): the block releases the lock on exit
with_lock(holder) == 0

\* a store method is called: a blocking acquire, the body, the release
Locked(holder) == lock = 0 /\ lock' = with_lock(holder)

\* the task serving POST /clear_history
ClearTask == NumReqs + 1

Started(r) == pc[r] # "idle"
MayBegin(r) == cur = 0 /\ pc[r] = "idle" /\ \A r2 \in Reqs : r2 < r => Started(r2)

Ended(r) == pc[r] \in {"done", "failed", "cancelled", "raised"}
BeginSerial(r) == IF \A r2 \in Reqs : r2 < r => Ended(r2) THEN serial \cup {r} ELSE serial

\* client ids are interchangeable: "u2" is used once "u1" has been
FreshOrder(c) == c = "u2" => \E r \in Reqs : client[r] = "u1"

\* a recording step that appends the user turn without the existence test
record_user_unchecked(h, c, q) == add_message(h, c, "user", q)

\* api.stream_response, lines 138-140: record the user turn unless it exists
record_user(h, c, q) ==
    IF message_exists(h, c, "user", q) THEN h ELSE add_message(h, c, "user", q)

StreamBegin(r, c, q) ==
    /\ MayBegin(r)
    /\ IF message_exists(history, c, "user", q) THEN UNCHANGED lock ELSE Locked(r)
    /\ serial' = BeginSerial(r)
    /\ FreshOrder(c)
    /\ history' = record_user(history, c, q)
    /\ added' = (IF history' # history THEN added \cup {c} ELSE added)
    /\ kind' = [kind EXCEPT ![r] = "stream"]
    /\ client' = [client EXCEPT ![r] = c]
    /\ query' = [query EXCEPT ![r] = q]
    /\ pc' = [pc EXCEPT ![r] = "retrieve"]
    /\ cur' = r
    /\ UNCHANGED <<lastOp, snap, indexLoaded, incl, ctx, prompt, idx, contentYielded, out,
                   npulled, pulled, committed, result,
                   cleared,
                   bypass>>

\* an except block that yields the error text without committing it
except_history_dropped(h, c, e) == h

\* the except block of stream_response: commit the error text, then yield it.
\* The yield is the generator's last statement: the request has ended
except_history(h, c, e) == add_message(h, c, "assistant", StreamErrorText(e))

ExceptHandler(r, e) ==
    /\ history' = except_history(history, client[r], e)
    /\ added' = (IF history' # history THEN added \cup {client[r]} ELSE added)
    /\ committed' = (IF history' # history
                     THEN [committed EXCEPT ![r] = @ \o StreamErrorText(e)]
                     ELSE committed)
    /\ out' = [out EXCEPT ![r] = Append(@, Frame(StreamErrorText(e)))]
    /\ pc' = [pc EXCEPT ![r] = "failed"]
    /\ cur' = 0
    /\ Locked(r)

Running(r, at) == cur = r /\ kind[r] = "stream" /\ pc[r] = at

StreamRetrieveBlank(r) ==
    /\ Running(r, "retrieve")
    /\ Blank(query[r])
    /\ ctx' = [ctx EXCEPT ![r] = Str(<< >>)]
    /\ pc' = [pc EXCEPT ![r] = "build"]
    /\ UNCHANGED <<history, added, lastOp, snap, indexLoaded, cur, kind, client, query, incl,
                   prompt, idx, contentYielded, out, npulled, pulled, committed, result,
                   serial, cleared,
                   lock, bypass>>

\* a missing index that is passed over without a word to the caller
StreamWarn_silent(r) ==
    /\ Running(r, "retrieve")
    /\ ~Blank(query[r])
    /\ ~indexLoaded
    /\ pc' = [pc EXCEPT ![r] = "yWarn"]
    /\ cur' = 0
    /\ UNCHANGED <<history, added, lastOp, snap, indexLoaded, kind, client, query, incl, ctx,
                   prompt, idx, contentYielded, out, npulled, pulled, committed, result,
                   serial, cleared, lock, bypass>>

StreamWarn(r) ==
    /\ Running(r, "retrieve")
    /\ ~Blank(query[r])
    /\ ~indexLoaded
    /\ out' = [out EXCEPT ![r] = Append(@, Frame(WarningText))]
    /\ pc' = [pc EXCEPT ![r] = "yWarn"]
    /\ cur' = 0
    /\ UNCHANGED <<history, added, lastOp, snap, indexLoaded, kind, client, query, incl, ctx,
                   prompt, idx, contentYielded, npulled, pulled, committed, result,
                   serial, cleared,
                   lock, bypass>>

StreamResumeWarn(r) ==
    /\ cur = 0
    /\ pc[r] = "yWarn"
    /\ cur' = r
    /\ ctx' = [ctx EXCEPT ![r] = Str(<< >>)]
    /\ pc' = [pc EXCEPT ![r] = "build"]
    /\ UNCHANGED <<history, added, lastOp, snap, indexLoaded, kind, client, query, incl,
                   prompt, idx, contentYielded, out, npulled, pulled, committed, result,
                   serial, cleared,
                   lock, bypass>>

StreamRetrieve(r, nodes) ==
    /\ Running(r, "retrieve")
    /\ ~Blank(query[r])
    /\ indexLoaded
    /\ ctx' = [ctx EXCEPT ![r] =
                  retrieve_context(indexLoaded, nodes, DefaultSimilarityThreshold).formatted]
    /\ pc' = [pc EXCEPT ![r] = "build"]
    /\ UNCHANGED <<history, added, lastOp, snap, indexLoaded, cur, kind, client, query, incl,
                   prompt, idx, contentYielded, out, npulled, pulled, committed, result,
                   serial, cleared,
                   lock, bypass>>

StreamRetrieveError(r) ==
    /\ Running(r, "retrieve")
    /\ ~Blank(query[r])
    /\ indexLoaded
    /\ ExceptHandler(r, RetrieverError)
    /\ UNCHANGED <<lastOp, snap, indexLoaded, kind, client, query, incl, ctx, prompt, idx,
                   contentYielded, npulled, pulled, result,
                   serial, cleared,
                   bypass>>

StreamBuild(r) ==
    /\ Running(r, "build")
    /\ Locked(r)
    /\ prompt' = [prompt EXCEPT ![r] =
                     create_messages(history, query[r], ctx[r], client[r], TRUE)]
    /\ ctx' = [ctx EXCEPT ![r] = Str(<< >>)]
    /\ pc' = [pc EXCEPT ![r] = "call"]
    /\ UNCHANGED <<history, added, lastOp, snap, indexLoaded, cur, kind, client, query, incl,
                   idx, contentYielded, out, npulled, pulled, committed, result,
                   serial, cleared,
                   bypass>>

StreamCall(r) ==
    /\ Running(r, "call")
    /\ prompt' = [prompt EXCEPT ![r] = << >>]
    /\ pc' = [pc EXCEPT ![r] = "loop"]
    /\ UNCHANGED <<history, added, lastOp, snap, indexLoaded, cur, kind, client, query, incl,
                   ctx, idx, contentYielded, out, npulled, pulled, committed, result,
                   serial, cleared,
                   lock, bypass>>

StreamCallError(r) ==
    /\ Running(r, "call")
    /\ prompt' = [prompt EXCEPT ![r] = << >>]
    /\ ExceptHandler(r, BackendError)
    /\ UNCHANGED <<lastOp, snap, indexLoaded, kind, client, query, incl, ctx, idx,
                   contentYielded, npulled, pulled, result,
                   serial, cleared,
                   bypass>>

\* a content test that lets the empty string through (`is not None` alone)
HasContent_not_none(ch) == ch.has

\* lines 206-221 for a chunk with content: the first one is stored with
\* add_message and its index kept; later ones are appended at that index
HasContent(ch) == ch.has /\ ch.text # << >>

accumulate(h, c, i, text) ==
    IF i = -1 THEN add_message(h, c, "assistant", text)
    ELSE SetItem(h, c, [Item(h, c) EXCEPT ![i + 1].content = @ \o text])

StreamSkip(r, ch) ==
    /\ Running(r, "loop")
    /\ npulled[r] < MaxDeltas
    /\ ~HasContent(ch)
    /\ npulled' = [npulled EXCEPT ![r] = @ + 1]
    /\ UNCHANGED <<history, added, lastOp, snap, indexLoaded, cur, pc, kind, client, query,
                   incl, ctx, prompt, idx, contentYielded, out, pulled, committed, result,
                   serial, cleared,
                   lock, bypass>>

StreamDelta(r, ch) ==
    /\ Running(r, "loop")
    /\ IF idx[r] = -1 THEN Locked(r) /\ UNCHANGED bypass
       ELSE UNCHANGED lock /\ bypass' = bypass \cup {r}
    /\ npulled[r] < MaxDeltas
    /\ HasContent(ch)
    /\ idx[r] < Len(Item(history, client[r]))
    /\ npulled' = [npulled EXCEPT ![r] = @ + 1]
    /\ pulled' = [pulled EXCEPT ![r] = Append(@, ch.text)]
    /\ contentYielded' = [contentYielded EXCEPT ![r] = TRUE]
    /\ history' = accumulate(history, client[r], idx[r], ch.text)
    /\ added' = added \cup {client[r]}
    /\ idx' = [idx EXCEPT ![r] = IF @ = -1 THEN Len(history'[client[r]]) - 1 ELSE @]
    /\ committed' = [committed EXCEPT ![r] = @ \o ch.text]
    /\ out' = [out EXCEPT ![r] = Append(@, Frame(ch.text))]
    /\ pc' = [pc EXCEPT ![r] = "yDelta"]
    /\ cur' = 0
    /\ UNCHANGED <<lastOp, snap, indexLoaded, kind, client, query, incl, ctx, prompt, result,
                   serial, cleared>>

\* line 218 when the list no longer has the kept index: IndexError
StreamDeltaIndexError(r, ch) ==
    /\ Running(r, "loop")
    /\ npulled[r] < MaxDeltas
    /\ HasContent(ch)
    /\ idx[r] >= Len(Item(history, client[r]))
    /\ npulled' = [npulled EXCEPT ![r] = @ + 1]
    /\ pulled' = [pulled EXCEPT ![r] = Append(@, ch.text)]
    /\ contentYielded' = [contentYielded EXCEPT ![r] = TRUE]
    /\ ExceptHandler(r, IndexError)
    /\ UNCHANGED <<lastOp, snap, indexLoaded, kind, client, query, incl, ctx, prompt, idx,
                   result,
                   serial, cleared,
                   bypass>>

StreamBackendError(r) ==
    /\ Running(r, "loop")
    /\ ExceptHandler(r, BackendError)
    /\ UNCHANGED <<lastOp, snap, indexLoaded, kind, client, query, incl, ctx, prompt, idx,
                   contentYielded, npulled, pulled, result,
                   serial, cleared,
                   bypass>>

StreamResume(r) ==
    /\ cur = 0
    /\ pc[r] = "yDelta"
    /\ cur' = r
    /\ pc' = [pc EXCEPT ![r] = "loop"]
    /\ UNCHANGED <<history, added, lastOp, snap, indexLoaded, kind, client, query, incl, ctx,
                   prompt, idx, contentYielded, out, npulled, pulled, committed, result,
                   serial, cleared,
                   lock, bypass>>

\* a fallback that is yielded to the caller but not committed to history
StreamEndFallback_uncommitted(r) ==
    /\ Running(r, "loop")
    /\ ~contentYielded[r]
    /\ out' = [out EXCEPT ![r] = Append(@, Frame(FallbackText))]
    /\ pc' = [pc EXCEPT ![r] = "done"]
    /\ cur' = 0
    /\ UNCHANGED <<history, added, committed, lastOp, snap, indexLoaded, kind, client, query,
                   incl, ctx, prompt, idx, contentYielded, npulled, pulled, result,
                   serial, cleared,
                   lock, bypass>>

\* lines 224-227; the yield is the generator's last statement
StreamEndFallback(r) ==
    /\ Running(r, "loop")
    /\ Locked(r)
    /\ ~contentYielded[r]
    /\ history' = add_message(history, client[r], "assistant", FallbackText)
    /\ added' = added \cup {client[r]}
    /\ committed' = [committed EXCEPT ![r] = @ \o FallbackText]
    /\ out' = [out EXCEPT ![r] = Append(@, Frame(FallbackText))]
    /\ pc' = [pc EXCEPT ![r] = "done"]
    /\ cur' = 0
    /\ UNCHANGED <<lastOp, snap, indexLoaded, kind, client, query, incl, ctx, prompt, idx,
                   contentYielded, npulled, pulled, result,
                   serial, cleared,
                   bypass>>

StreamEnd(r) ==
    /\ Running(r, "loop")
    /\ contentYielded[r]
    /\ pc' = [pc EXCEPT ![r] = "done"]
    /\ cur' = 0
    /\ UNCHANGED <<history, added, lastOp, snap, indexLoaded, kind, client, query, incl, ctx,
                   prompt, idx, contentYielded, out, npulled, pulled, committed, result,
                   serial, cleared,
                   lock, bypass>>

\* a close whose GeneratorExit is caught by the except block: the error text
\* is committed to history as the generator is closed
Cancel_caught(r) ==
    /\ cur = 0
    /\ pc[r] \in {"yWarn", "yDelta"}
    /\ history' = except_history(history, client[r], <<"GeneratorExit">>)
    /\ added' = added \cup {client[r]}
    /\ committed' = [committed EXCEPT ![r] = @ \o StreamErrorText(<<"GeneratorExit">>)]
    /\ pc' = [pc EXCEPT ![r] = "cancelled"]
    /\ UNCHANGED <<lastOp, snap, indexLoaded, cur, kind, client, query, incl, ctx, prompt,
                   idx, contentYielded, out, npulled, pulled, result, serial, cleared,
                   lock, bypass>>

\* the caller disconnects while the generator is suspended at a yield: the
\* generator is closed there and runs no further statement
Cancel(r) ==
    /\ cur = 0
    /\ pc[r] \in {"yWarn", "yDelta"}
    /\ pc' = [pc EXCEPT ![r] = "cancelled"]
    /\ UNCHANGED <<history, added, lastOp, snap, indexLoaded, cur, kind, client, query, incl,
                   ctx, prompt, idx, contentYielded, out, npulled, pulled, committed, result,
                   serial, cleared,
                   lock, bypass>>

(***************************************************************************)
(* Single-shot mode: RAGService.create_completion behind POST              *)
(* /v1/completions.  The whole call runs without a yield.                  *)
(***************************************************************************)
SingleBegin(r, c, q, include_history, nodes, similarity_threshold) ==
    /\ MayBegin(r)
    /\ IF include_history /\ c # NoClient THEN Locked(r) ELSE UNCHANGED lock
    /\ serial' = BeginSerial(r)
    /\ FreshOrder(c)
    /\ kind' = [kind EXCEPT ![r] = "single"]
    /\ client' = [client EXCEPT ![r] = c]
    /\ query' = [query EXCEPT ![r] = q]
    /\ incl' = [incl EXCEPT ![r] = include_history]
    /\ ctx' = [ctx EXCEPT ![r] =
                  completion_context(indexLoaded, q, nodes, similarity_threshold)]
    /\ prompt' = [prompt EXCEPT ![r] =
                     completion_messages(history, indexLoaded, q, nodes,
                                         similarity_threshold, c, include_history)]
    /\ pc' = [pc EXCEPT ![r] = "call"]
    /\ cur' = r
    /\ UNCHANGED <<history, added, lastOp, snap, indexLoaded, idx, contentYielded, out,
                   npulled, pulled, committed, result,
                   cleared,
                   bypass>>

\* the retriever raises: nothing in create_completion catches it
SingleRetrieveError(r, c, q, include_history) ==
    /\ MayBegin(r)
    /\ serial' = BeginSerial(r)
    /\ FreshOrder(c)
    /\ ~Blank(q)
    /\ indexLoaded
    /\ kind' = [kind EXCEPT ![r] = "single"]
    /\ client' = [client EXCEPT ![r] = c]
    /\ query' = [query EXCEPT ![r] = q]
    /\ incl' = [incl EXCEPT ![r] = include_history]
    /\ result' = [result EXCEPT ![r] = [kind |-> "raised", completion |-> << >>]]
    /\ pc' = [pc EXCEPT ![r] = "raised"]
    /\ UNCHANGED <<history, added, lastOp, snap, indexLoaded, cur, ctx, prompt, idx,
                   contentYielded, out, npulled, pulled, committed,
                   cleared,
                   lock, bypass>>

\* a commit that appends the user turn without looking for an earlier one
commit_completion_unchecked(h, c, q, completion_text) ==
    IF c = NoClient THEN h
    ELSE add_message(add_message(h, c, "user", q), c, "assistant", completion_text)

\* lines 486-493: commit the user turn (unless it exists) and the answer
commit_completion(h, c, q, completion_text) ==
    IF c = NoClient THEN h
    ELSE add_message(record_user(h, c, q), c, "assistant", completion_text)

SingleReturn(r, completion_text) ==
    /\ cur = r
    /\ IF client[r] # NoClient THEN Locked(r) ELSE UNCHANGED lock
    /\ kind[r] = "single"
    /\ pc[r] = "call"
    /\ history' = commit_completion(history, client[r], query[r], completion_text)
    /\ added' = (IF client[r] = NoClient THEN added ELSE added \cup {client[r]})
    /\ committed' = (IF client[r] = NoClient THEN committed
                     ELSE [committed EXCEPT ![r] = completion_text])
    /\ result' = [result EXCEPT ![r] = [kind |-> "ok", completion |-> completion_text]]
    /\ pc' = [pc EXCEPT ![r] = "done"]
    /\ cur' = 0
    /\ ctx' = [ctx EXCEPT ![r] = Str(<< >>)]
    /\ prompt' = [prompt EXCEPT ![r] = << >>]
    /\ UNCHANGED <<lastOp, snap, indexLoaded, kind, client, query, incl, idx,
                   contentYielded, out, npulled, pulled,
                   serial, cleared,
                   bypass>>

\* lines 466-477: the backend call raises; an error dict is returned
SingleBackendError(r) ==
    /\ cur = r
    /\ kind[r] = "single"
    /\ pc[r] = "call"
    /\ result' = [result EXCEPT ![r] =
                     [kind |-> "error", completion |-> CompletionErrorText(BackendError)]]
    /\ pc' = [pc EXCEPT ![r] = "failed"]
    /\ cur' = 0
    /\ ctx' = [ctx EXCEPT ![r] = Str(<< >>)]
    /\ prompt' = [prompt EXCEPT ![r] = << >>]
    /\ UNCHANGED <<history, added, lastOp, snap, indexLoaded, kind, client, query, incl, idx,
                   contentYielded, out, npulled, pulled, committed,
                   serial, cleared,
                   lock, bypass>>

\* line 484 on a response without choices: the exception leaves create_completion
SingleMalformed(r) ==
    /\ cur = r
    /\ kind[r] = "single"
    /\ pc[r] = "call"
    /\ result' = [result EXCEPT ![r] = [kind |-> "raised", completion |-> << >>]]
    /\ pc' = [pc EXCEPT ![r] = "raised"]
    /\ cur' = 0
    /\ ctx' = [ctx EXCEPT ![r] = Str(<< >>)]
    /\ prompt' = [prompt EXCEPT ![r] = << >>]
    /\ UNCHANGED <<history, added, lastOp, snap, indexLoaded, kind, client, query, incl, idx,
                   contentYielded, out, npulled, pulled, committed,
                   serial, cleared,
                   lock, bypass>>

(***************************************************************************)
(* RAGService.create_completion_stream: line 536 appends the user turn     *)
(* and then awaits the None that the synchronous add_message returned,     *)
(* which raises TypeError outside the try block.                           *)
(***************************************************************************)
CreateCompletionStream(r, c, q) ==
    /\ MayBegin(r)
    /\ Locked(r)
    /\ serial' = BeginSerial(r)
    /\ FreshOrder(c)
    /\ history' = add_message(history, c, "user", q)
    /\ added' = added \cup {c}
    /\ kind' = [kind EXCEPT ![r] = "cstream"]
    /\ client' = [client EXCEPT ![r] = c]
    /\ query' = [query EXCEPT ![r] = q]
    /\ pc' = [pc EXCEPT ![r] = "raised"]
    /\ UNCHANGED <<lastOp, snap, indexLoaded, cur, incl, ctx, prompt, idx, contentYielded,
                   out, npulled, pulled, committed, result,
                   cleared,
                   bypass>>

(***************************************************************************)
(* POST /clear_history and POST /get_history                               *)
(***************************************************************************)
ClearHistoryEndpoint(c) ==
    /\ cur = 0
    /\ Locked(ClearTask)
    /\ history' = clear_history(history, c)
    /\ cleared' = cleared \cup {r \in Reqs : Started(r) /\ client[r] = c}
    /\ UNCHANGED <<added, lastOp, snap, indexLoaded, cur, pc, kind, client, query, incl, ctx,
                   prompt, idx, contentYielded, out, npulled, pulled, committed, result,
                   serial,
                   bypass>>

Init ==
    /\ history = EmptyStore
    /\ added = {}
    /\ lastOp = NoOp
    /\ snap = NoSnap
    /\ indexLoaded \in BOOLEAN
    /\ ReqIdle

Next ==
    \/ \E r \in Reqs, c \in Clients, q \in Queries : StreamBegin(r, c, q)
    \/ \E r \in Reqs : StreamRetrieveBlank(r)
    \/ \E r \in Reqs : StreamWarn(r)
    \/ \E r \in Reqs : StreamResumeWarn(r)
    \/ \E r \in Reqs, nodes \in NodeLists : StreamRetrieve(r, nodes)
    \/ \E r \in Reqs : StreamRetrieveError(r)
    \/ \E r \in Reqs : StreamBuild(r)
    \/ \E r \in Reqs : StreamCall(r)
    \/ \E r \in Reqs : StreamCallError(r)
    \/ \E r \in Reqs, ch \in Chunks : StreamSkip(r, ch)
    \/ \E r \in Reqs, ch \in Chunks : StreamDelta(r, ch)
    \/ \E r \in Reqs, ch \in Chunks : StreamDeltaIndexError(r, ch)
    \/ \E r \in Reqs : StreamBackendError(r)
    \/ \E r \in Reqs : StreamResume(r)
    \/ \E r \in Reqs : StreamEndFallback(r)
    \/ \E r \in Reqs : StreamEnd(r)
    \/ \E r \in Reqs : Cancel(r)
    \/ \E r \in Reqs, c \in Clients \cup {NoClient}, q \in Queries,
          include_history \in BOOLEAN, nodes \in NodeLists,
          similarity_threshold \in Thresholds :
          SingleBegin(r, c, q, include_history, nodes, similarity_threshold)
    \/ \E r \in Reqs, c \in Clients \cup {NoClient}, q \in Queries,
          include_history \in BOOLEAN : SingleRetrieveError(r, c, q, include_history)
    \/ \E r \in Reqs, completion_text \in Answers : SingleReturn(r, completion_text)
    \/ \E r \in Reqs : SingleBackendError(r)
    \/ \E r \in Reqs : SingleMalformed(r)
    \/ \E r \in Reqs, c \in Clients, q \in Queries : CreateCompletionStream(r, c, q)
    \/ \E c \in Clients : ClearHistoryEndpoint(c)

Spec == Init /\ [][Next]_vars

(***************************************************************************)
(* Properties of the conversation store, checked under StoreSpec           *)
(***************************************************************************)
\* the last n elements of s, all of s when it has at most n
LastN(s, n) == IF n >= Len(s) THEN s ELSE SubSeq(s, Len(s) - n + 1, Len(s))

\* C6: for a client that has recorded messages, clear_history called twice in
\* a row with nothing in between returns true the first time and false the
\* second time.
C6_ClearTwiceTrueThenFalse ==
    lastOp.op = "clear_history" =>
        /\ lastOp.hadMessages => lastOp.ok
        /\ lastOp.repeat => ~lastOp.ok

\* C7: for a client id that never had a message added, clear_history returns
\* false, get_history and get_formatted_history return the empty list, and no
\* operation creates an entry for that id in the store.
C7_NeverSeenClient ==
    /\ \A c \in Clients \ added : c \notin DOMAIN history
    /\ (lastOp.op = "clear_history" /\ lastOp.client \notin added) => ~lastOp.ok
    /\ (lastOp.op \in {"get_history", "get_formatted_history"}
            /\ lastOp.client \notin added) => lastOp.hist = << >>

\* a clear_history on a never-seen client, made after the store has been
\* used for another client
C7_Witness ==
    /\ lastOp.op = "clear_history"
    /\ lastOp.client \notin added
    /\ added # {}
    /\ ~lastOp.ok
    /\ lastOp.client \notin DOMAIN history

\* C8: for every client and every n >= 0, n = 0 included,
\* get_formatted_history(c, n) returns exactly the last n non-system messages
\* in their original order, and all of them when n is at least their number.
C8_HistoryWindow ==
    lastOp.op = "get_formatted_history" =>
        lastOp.hist = LastN(SelectSeq(Item(history, lastOp.client), NotSystem),
                            lastOp.max_turns)

(***************************************************************************)
(* Properties of the prompt builder, checked under PromptSpec              *)
(***************************************************************************)
\* t occurs in s as a contiguous run
Contains(s, t) ==
    \E i \in 0 .. (Len(s) - Len(t)) : SubSeq(s, i + 1, i + Len(t)) = t

\* the history spliced into the prompt of the last create_messages call
SplicedHistory ==
    IF lastOp.include_history /\ lastOp.client # NoClient
    THEN get_formatted_history(history, lastOp.client, DefaultMaxTurns)
    ELSE << >>

\* C4: whenever a non-empty formatted context exists, for every client id and
\* include_history setting, the built messages are the system message, then
\* the spliced history, then exactly one user message that contains both the
\* context and the query.
C4_PromptWithContext ==
    (lastOp.op = "create_messages" /\ Truthy(lastOp.context)) =>
        LET m == lastOp.messages
        IN  /\ Len(m) = Len(SplicedHistory) + 2
            /\ m[1] = Msg("system", SystemPrompt)
            /\ SubSeq(m, 2, Len(m) - 1) = SplicedHistory
            /\ Last(m).role = "user"
            /\ Contains(Last(m).content, lastOp.context.text)
            /\ Contains(Last(m).content, lastOp.query)
            /\ Cardinality({i \in 1 .. Len(m) :
                               Contains(m[i].content, lastOp.context.text)}) = 1

\* C5: when no context was produced, the built messages end with a user
\* message whose content is the query, and that turn is at the tail exactly
\* once: it is appended to system + history unless the last history entry is
\* already a user message with the same content.
C5_PromptWithoutContext ==
    (lastOp.op = "create_messages" /\ ~Truthy(lastOp.context)) =>
        LET m == lastOp.messages
            turn == Msg("user", lastOp.query)
            head == <<Msg("system", SystemPrompt)>> \o SplicedHistory
        IN  /\ Last(m) = turn
            /\ m = IF SplicedHistory # << >> /\ Last(SplicedHistory) = turn
                   THEN head
                   ELSE Append(head, turn)

\* the query repeats the last history entry, so nothing is appended
C5_Witness ==
    /\ lastOp.op = "create_messages"
    /\ ~Truthy(lastOp.context)
    /\ SplicedHistory # << >>
    /\ Last(SplicedHistory) = Msg("user", lastOp.query)
    /\ lastOp.messages = <<Msg("system", SystemPrompt)>> \o SplicedHistory

(***************************************************************************)
(* Properties of the service, checked under Spec                           *)
(***************************************************************************)
\* a forwarded chunk without its trailing newline
Unframe(chunk) == SubSeq(chunk, 1, Len(chunk) - 1)

\* the chunks request r forwarded, unframed, and their concatenation
ForwardedChunks(r) == [i \in 1 .. Len(out[r]) |-> Unframe(out[r][i])]
Forwarded(r) == Flatten(ForwardedChunks(r))

\* how many user messages with content q client c has
CountUser(h, c, q) ==
    Cardinality({i \in 1 .. Len(Item(h, c)) : Item(h, c)[i] = Msg("user", q)})

\* request r forwarded the missing-index warning
Warned(r) == out[r] # << >> /\ Head(out[r]) = Frame(WarningText)

\* the assistant message request r created is where it recorded it
OwnEntry(r) ==
    IF idx[r] >= 0 /\ idx[r] < Len(Item(history, client[r]))
    THEN Item(history, client[r])[idx[r] + 1]
    ELSE Msg("none", << >>)

\* requests r - 1 and r ran one after the other for the same client and
\* query, with no other request of that client, no clear_history and no
\* later request
InSuccession(r) ==
    /\ r > 1
    /\ Ended(r - 1) /\ Ended(r)
    /\ {r - 1, r} \subseteq serial
    /\ cleared \cap {r - 1, r} = {}
    /\ client[r] # NoClient
    /\ client[r - 1] = client[r]
    /\ query[r - 1] = query[r]
    /\ \A r2 \in Reqs : r2 < r - 1 => client[r2] # client[r]
    /\ \A r2 \in Reqs : r2 > r => pc[r2] = "idle"

\* C1: running the completion path (single-shot or streaming) twice in direct
\* succession for the same client with the same query leaves exactly one user
\* message with that query in the client's history.
C1_DuplicateSuppression ==
    \A r \in Reqs :
        InSuccession(r) => CountUser(history, client[r], query[r]) = 1

\* C2: when the backend's deltas concatenate to S and nothing fails, the
\* chunks forwarded by a streaming request concatenate to S and the assistant
\* message holding the request's turn has content exactly S (for a request
\* whose client was not cleared since it began).
C2_StreamingEquivalence ==
    \A r \in Reqs :
        (kind[r] = "stream" /\ pc[r] = "done" /\ pulled[r] # << >>
            /\ ~Warned(r) /\ r \notin cleared) =>
                /\ Forwarded(r) = Flatten(pulled[r])
                /\ OwnEntry(r) = Msg("assistant", Flatten(pulled[r]))

\* C3: when a streaming request has ended, Done or Failed, the assistant
\* content it committed to history equals the concatenation of every chunk it
\* forwarded, warning and error chunks included.
C3_HistoryReflectsOutput ==
    \A r \in Reqs :
        (kind[r] = "stream" /\ pc[r] \in {"done", "failed"}) =>
            committed[r] = Forwarded(r)

\* C9: when the caller cancels a stream after k deltas were forwarded, the
\* request's assistant entry is the concatenation of exactly those k deltas
\* (for a request whose client was not cleared since it began).
C9_DisconnectKeepsPartial ==
    \A r \in Reqs :
        (kind[r] = "stream" /\ pc[r] = "cancelled" /\ pulled[r] # << >>
            /\ r \notin cleared) =>
                /\ ForwardedChunks(r) = (IF Warned(r) THEN <<WarningText>> ELSE << >>)
                                            \o pulled[r]
                /\ OwnEntry(r) = Msg("assistant", Flatten(pulled[r]))

\* C10: when the backend fails after some deltas were forwarded, the request
\* forwards one error chunk, appends that same error text to the client's
\* history as an assistant message, leaves every earlier message as it was,
\* and ends in Failed, where it forwards and commits nothing more.
C10_MidStreamFailure ==
    [][\A r \in Reqs :
          /\ (StreamBackendError(r) /\ pulled[r] # << >>) =>
                /\ out'[r] = Append(out[r], Frame(StreamErrorText(BackendError)))
                /\ history' = SetItem(history, client[r],
                                      Append(Item(history, client[r]),
                                             Msg("assistant",
                                                 StreamErrorText(BackendError))))
                /\ committed'[r] = committed[r] \o StreamErrorText(BackendError)
                /\ pc'[r] = "failed"
          /\ (kind[r] = "stream" /\ pc[r] = "failed") =>
                /\ pc'[r] = "failed"
                /\ out'[r] = out[r]
                /\ committed'[r] = committed[r]]_vars

\* a stream that failed after forwarding a delta: the partial answer and the
\* error text are both in the client's history
C10_Witness ==
    \E r \in Reqs :
        /\ kind[r] = "stream"
        /\ pc[r] = "failed"
        /\ r \notin cleared
        /\ pulled[r] # << >>
        /\ Last(out[r]) = Frame(StreamErrorText(BackendError))
        /\ OwnEntry(r) = Msg("assistant", Flatten(pulled[r]))
        /\ Last(Item(history, client[r])) = Msg("assistant", StreamErrorText(BackendError))

\* C11: when a stream is exhausted without any non-empty delta, the fallback
\* text is forwarded once and committed once as a new assistant message, and
\* the request ends in Done, where it forwards and commits nothing more.
C11_EmptyGeneration ==
    [][\A r \in Reqs :
          /\ StreamEndFallback(r) =>
                /\ \A i \in 1 .. Len(out[r]) : out[r][i] # Frame(FallbackText)
                /\ out'[r] = Append(out[r], Frame(FallbackText))
                /\ committed[r] = << >>
                /\ committed'[r] = FallbackText
                /\ history' = SetItem(history, client[r],
                                      Append(Item(history, client[r]),
                                             Msg("assistant", FallbackText)))
                /\ pc'[r] = "done"
          /\ (kind[r] = "stream" /\ pc[r] = "done") =>
                /\ pc'[r] = "done"
                /\ out'[r] = out[r]
                /\ committed'[r] = committed[r]]_vars

\* a stream whose backend sent only empty chunks: the caller got the fallback
\* once and the client's last message is the fallback
C11_Witness ==
    \E r \in Reqs :
        /\ kind[r] = "stream"
        /\ pc[r] = "done"
        /\ npulled[r] > 0
        /\ pulled[r] = << >>
        /\ ForwardedChunks(r) = <<FallbackText>>
        /\ committed[r] = FallbackText
        /\ Last(Item(history, client[r])) = Msg("assistant", FallbackText)

\* C12: in single-shot mode an error raised by the retriever or by the model
\* client, a malformed backend response included, makes create_completion
\* return a result whose completion text describes the error: no exception
\* leaves create_completion.
C12_SingleShotErrorsAreData ==
    \A r \in Reqs :
        (kind[r] = "single" /\ Ended(r)) =>
            /\ result[r].kind \in {"ok", "error"}
            /\ result[r].kind = "error" => result[r].completion # << >>

\* C13: whenever the backend call fails for a request that carries a client
\* id, the error text returned or streamed to the caller is also committed to
\* that client's history, in single-shot mode as in streaming mode.
C13_BackendFailureAuditable ==
    \A r \in Reqs :
        client[r] # NoClient =>
            /\ (kind[r] = "single" /\ result[r].kind = "error") =>
                  committed[r] = result[r].completion
            /\ (kind[r] = "stream" /\ pc[r] = "failed"
                    /\ Last(out[r]) = Frame(StreamErrorText(BackendError))) =>
                  /\ Len(committed[r]) >= Len(StreamErrorText(BackendError))
                  /\ SliceFrom(committed[r], 0 - Len(StreamErrorText(BackendError)))
                        = StreamErrorText(BackendError)

\* the messages a successful single-shot request adds for client c: the user
\* turn unless one with the same content is already there, then the answer
SingleShotTurns(h, c, q, answer) ==
    (IF \E i \in 1 .. Len(Item(h, c)) : Item(h, c)[i] = Msg("user", q)
     THEN << >> ELSE <<Msg("user", q)>>) \o <<Msg("assistant", answer)>>

\* C14: a successful single-shot request with a client id appends the user
\* turn (if not already present) and then the assistant turn carrying the
\* backend's completion text, each once; for a client without history the
\* history becomes [user: Q, assistant: answer]; without a client id the store
\* is left unchanged.
C14_SingleShotCommit ==
    [][\A r \in Reqs, answer \in Answers :
          SingleReturn(r, answer) =>
              /\ result'[r] = [kind |-> "ok", completion |-> answer]
              /\ client[r] = NoClient => history' = history
              /\ client[r] # NoClient =>
                    /\ history' = SetItem(history, client[r],
                                          Item(history, client[r])
                                            \o SingleShotTurns(history, client[r],
                                                               query[r], answer))
                    /\ Item(history, client[r]) = << >> =>
                          history'[client[r]] = <<Msg("user", query[r]),
                                                  Msg("assistant", answer)>>]_vars

\* two successful single-shot requests with the same query: one user turn,
\* two answers
C14_Witness ==
    \E r \in Reqs :
        /\ r > 1
        /\ kind[r] = "single" /\ kind[r - 1] = "single"
        /\ result[r].kind = "ok" /\ result[r - 1].kind = "ok"
        /\ client[r] # NoClient
        /\ Item(history, client[r]) =
              <<Msg("user", query[r]), Msg("assistant", result[r - 1].completion),
                Msg("assistant", result[r].completion)>>

(***************************************************************************)
(* Properties of the retrieval pipeline, checked under RetrievalSpec       *)
(***************************************************************************)
\* C15: when retrieval ran and no candidate scores at or above the threshold,
\* the prompt built for a client that has prior turns holds no context block:
\* it is the system message, the prior turns oldest to newest, and the bare
\* query at its end.
C15_NoContextPromptWithHistory ==
    (/\ lastOp.op = "completion_messages"
     /\ lastOp.loaded
     /\ ~Blank(lastOp.query)
     /\ \A i \in 1 .. Len(lastOp.nodes) : lastOp.nodes[i].score < lastOp.threshold
     /\ SplicedHistory # << >>) =>
        LET m == lastOp.messages
        IN  /\ m[1] = Msg("system", SystemPrompt)
            /\ SubSeq(m, 2, Len(SplicedHistory) + 1) = SplicedHistory
            /\ Last(m) = Msg("user", lastOp.query)
            /\ Len(m) \in {Len(SplicedHistory) + 1, Len(SplicedHistory) + 2}
            /\ \A i \in 1 .. Len(m) : ~Contains(m[i].content, <<"\n\n[query:]\n">>)

\* candidates were retrieved, none passed the threshold, and the query was
\* appended after the client's prior turns
C15_Witness ==
    /\ lastOp.op = "completion_messages"
    /\ lastOp.loaded
    /\ lastOp.query = <<"q">>
    /\ lastOp.nodes # << >>
    /\ \A i \in 1 .. Len(lastOp.nodes) : lastOp.nodes[i].score < lastOp.threshold
    /\ Len(SplicedHistory) = 2
    /\ lastOp.messages = <<Msg("system", SystemPrompt)>> \o SplicedHistory
                            \o <<Msg("user", lastOp.query)>>

\* C19: the context chunks returned are exactly the retrieved candidates whose
\* score is >= the threshold, in retriever order; a candidate whose score
\* equals the threshold is kept, and threshold 0 admits every candidate.
C19_ThresholdFilter ==
    (lastOp.op = "retrieve_context" /\ lastOp.loaded) =>
        LET Kept(n) == n.score >= lastOp.threshold
        IN  /\ lastOp.results = SelectSeq(lastOp.nodes, Kept)
            /\ lastOp.threshold = 0 => lastOp.results = lastOp.nodes

\* a candidate whose score equals the threshold was returned
C19_Witness ==
    /\ lastOp.op = "retrieve_context"
    /\ lastOp.loaded
    /\ Len(lastOp.nodes) = 2
    /\ Len(lastOp.results) = 2
    /\ lastOp.results[2].score = lastOp.threshold

\* C20: for a fixed candidate list and thresholds t1 <= t2, the chunks
\* returned under t2 are among those returned under t1, and no more numerous.
C20_ThresholdMonotone ==
    (lastOp.op = "retrieve_context" /\ lastOp.loaded) =>
        \A t1 \in PromptThresholds :
            t1 <= lastOp.threshold =>
                LET lower == retrieve_context(lastOp.loaded, lastOp.nodes, t1).results
                IN  /\ Len(lastOp.results) <= Len(lower)
                    /\ \A i \in 1 .. Len(lastOp.results) :
                          \E j \in 1 .. Len(lower) : lower[j] = lastOp.results[i]

\* a threshold that returns one chunk where a lower one returns two
C20_Witness ==
    /\ lastOp.op = "retrieve_context"
    /\ lastOp.loaded
    /\ Len(lastOp.results) = 1
    /\ \E t1 \in PromptThresholds :
          /\ t1 < lastOp.threshold
          /\ Len(retrieve_context(lastOp.loaded, lastOp.nodes, t1).results) = 2

(***************************************************************************)
(* Further properties of the conversation store                            *)
(***************************************************************************)
\* C16: add_partial_response(c, d) appends d to the content of c's last
\* message when that message is from the assistant, leaving the number of
\* messages unchanged; otherwise it appends one new assistant message with
\* content d; every other message, of c and of other clients, is unchanged.
C16_AddPartialResponse ==
    [][\A c \in Clients, d \in StoreContents :
          AddPartialResponse(c, d) =>
              LET s == Item(history, c)
                  t == Item(history', c)
              IN  /\ IF s # << >> /\ Last(s).role = "assistant"
                     THEN /\ Len(t) = Len(s)
                          /\ t[Len(s)] = Msg("assistant", Last(s).content \o d)
                          /\ \A i \in 1 .. (Len(s) - 1) : t[i] = s[i]
                     ELSE t = Append(s, Msg("assistant", d))
                  /\ \A c2 \in Clients \ {c} :
                        Item(history', c2) = Item(history, c2)]_vars

\* a partial response grew the assistant message that follows a user message
C16_Witness ==
    /\ lastOp.op = "add_partial_response"
    /\ Len(Item(history, lastOp.client)) = 2
    /\ Item(history, lastOp.client)[1].role = "user"
    /\ Item(history, lastOp.client)[2] = Msg("assistant", <<"a", "a">>)

\* C17: add_message with a role outside {system, user, assistant} is rejected
\* with an error and leaves the history unchanged, so every stored message
\* has a role in that set.
C17_ClosedRoleSet ==
    \A c \in DOMAIN history :
        \A i \in 1 .. Len(history[c]) : history[c][i].role \in Roles

\* C18: a list returned by get_history or get_formatted_history is a
\* snapshot: no later add_message, add_partial_response or clear_history
\* changes its length or the content of any of its messages.
C18_ReadsReturnCopies ==
    /\ Len(snap.now) = Len(snap.at)
    /\ \A k \in 1 .. Len(snap.at) : snap.now[k] = snap.at[k]

(***************************************************************************)
(* Degradation, recording and locking                                      *)
(***************************************************************************)
\* C21: when no vector index is loaded, a request with a non-blank query goes
\* on to generation with an empty context and is not failed by the missing
\* index: a stream forwards the warning chunk once, before any model delta,
\* builds its prompt without a context block and can only fail with a
\* backend or storage error; a single-shot request forwards no chunk, sends
\* a prompt without a context block, and its retrieval result is empty.
C21_IndexNotLoaded ==
    LET ContextMark == <<"\n\n[answer from context]">>
        NoContextBlock(m) == \A i \in 1 .. Len(m) : ~Contains(m[i].content, ContextMark)
        Warnings(r) == {i \in 1 .. Len(out[r]) : out[r][i] = Frame(WarningText)}
    IN  /\ \A nodes \in NodeLists, t \in PromptThresholds :
              retrieve_context(FALSE, nodes, t) =
                  [results |-> << >>, formatted |-> Str(<< >>)]
        /\ \A r \in Reqs :
              (Started(r) /\ ~indexLoaded /\ ~Blank(query[r])) =>
                  /\ kind[r] = "stream" =>
                        /\ pc[r] = "retrieve" => out[r] = << >>
                        /\ pc[r] # "retrieve" => Warnings(r) = {1}
                        /\ pc[r] = "yWarn" => pulled[r] = << >>
                        /\ pc[r] = "build" => ctx[r] = Str(<< >>)
                        /\ pc[r] = "call" =>
                              prompt[r] # << >> /\ NoContextBlock(prompt[r])
                        /\ pc[r] = "failed" =>
                              Unframe(Last(out[r])) \in
                                  {StreamErrorText(BackendError),
                                   StreamErrorText(IndexError)}
                  /\ kind[r] = "single" =>
                        /\ out[r] = << >>
                        /\ pc[r] = "call" =>
                              /\ ctx[r] = Str(<< >>)
                              /\ prompt[r] # << >> /\ NoContextBlock(prompt[r])

\* a stream without an index that ran to the end: the caller got the warning
\* and then the model's delta
C21_Witness ==
    \E r \in Reqs :
        /\ ~indexLoaded
        /\ kind[r] = "stream"
        /\ query[r] = <<"q">>
        /\ pc[r] = "done"
        /\ out[r] = <<Frame(WarningText), Frame(<<"a">>)>>

\* C22: for every request with a client id, in both modes, when the model
\* backend is invoked the client's history already contains a user message
\* whose content is the request's query.
C22_UserTurnBeforeGeneration ==
    \A r \in Reqs :
        (kind[r] \in {"stream", "single"} /\ client[r] # NoClient
            /\ pc[r] = "call" /\ r \notin cleared) =>
                CountUser(history, client[r], query[r]) >= 1

\* C23: a request appends its query as a new user message whenever the
\* client's most recent message is not already that user message: once a
\* stream has passed its recording step, and no other request or clear has
\* touched the client's history since, the client's most recent message is
\* the user message with the query.
C23_RecordingCondition ==
    \A r \in Reqs :
        (kind[r] = "stream" /\ pc[r] = "retrieve" /\ cur = r) =>
            Last(Item(history, client[r])) = Msg("user", query[r])

\* C24: every step that changes a client's message sequence (append, growth
\* of an assistant message in place, clear) runs while the store's lock is
\* held, and the orchestrator reaches the history only through the store's
\* operations: no request ever writes to the underlying storage itself.
C24_OneLockGuardsMutations == bypass = {}

C26_CancellationStops ==
    [][\A r \in Reqs :
          /\ (pc[r] # "cancelled" /\ pc'[r] = "cancelled") =>
                /\ history' = history
                /\ committed'[r] = committed[r]
                /\ npulled'[r] = npulled[r]
                /\ out'[r] = out[r]
          /\ pc[r] = "cancelled" =>
                /\ pc'[r] = "cancelled"
                /\ npulled'[r] = npulled[r]
                /\ pulled'[r] = pulled[r]
                /\ out'[r] = out[r]
                /\ committed'[r] = committed[r]
                /\ cur' # r]_vars

\* a stream cancelled after its first delta, with the backend able to send
\* more: it committed exactly that delta, and another request ran afterwards
C26_Witness ==
    \E r \in Reqs :
        /\ kind[r] = "stream"
        /\ pc[r] = "cancelled"
        /\ Len(pulled[r]) = 1
        /\ npulled[r] < MaxDeltas
        /\ committed[r] = Flatten(pulled[r])
        /\ \E r2 \in Reqs : r2 # r /\ Ended(r2) /\ client[r2] = client[r]

\* C27: while a request is streaming, and after it ended normally or was
\* cancelled, the chunks forwarded after the optional warning are exactly the
\* backend's non-empty deltas, in emission order, each once, and exactly
\* those were accumulated into history by the request; a chunk with empty or
\* absent content is pulled but neither forwarded nor accumulated.  After a
\* failure the forwarded deltas are those pulled before the failing one,
\* followed by the error chunk.
C27_ForwardingOrder ==
    \A r \in Reqs :
        kind[r] = "stream" =>
            LET f == ForwardedChunks(r)
                body == IF Warned(r) THEN Tail(f) ELSE f
                Front(s) == SubSeq(s, 1, Len(s) - 1)
            IN  /\ \A i \in 1 .. Len(pulled[r]) : pulled[r][i] # << >>
                /\ Len(pulled[r]) <= npulled[r]
                /\ pc[r] \in {"loop", "yDelta", "cancelled"} =>
                      body = pulled[r] /\ committed[r] = Flatten(pulled[r])
                /\ (pc[r] = "done" /\ pulled[r] # << >>) =>
                      body = pulled[r] /\ committed[r] = Flatten(pulled[r])
                /\ (pc[r] = "done" /\ pulled[r] = << >>) => body = <<FallbackText>>
                /\ pc[r] = "failed" =>
                      /\ body # << >>
                      /\ Front(body) \in {pulled[r], Front(pulled[r])}

\* a finished stream whose backend sent an empty chunk and a non-empty one:
\* only the non-empty one was forwarded
C27_Witness ==
    \E r \in Reqs :
        /\ kind[r] = "stream"
        /\ pc[r] = "done"
        /\ npulled[r] = 2
        /\ pulled[r] = <<(<<"a">>)>>
        /\ out[r] = <<Frame(<<"a">>)>>

\* C28: between two clear_history calls for a client the history is
\* append-only: on every step that is not a clear_history call, no client's
\* history gets shorter, every message keeps its position and role, its new
\* content has its old content as a prefix, and only assistant messages
\* change content.
C28_AppendOnlyHistory ==
    [][(\A c \in Clients : ~ClearHistoryEndpoint(c)) =>
          \A c \in Clients :
              LET old == Item(history, c)
                  new == Item(history', c)
              IN  /\ Len(new) >= Len(old)
                  /\ \A i \in 1 .. Len(old) :
                        /\ new[i].role = old[i].role
                        /\ Len(new[i].content) >= Len(old[i].content)
                        /\ SubSeq(new[i].content, 1, Len(old[i].content)) = old[i].content
                        /\ new[i].content # old[i].content => old[i].role = "assistant"]_vars

\* C29: every message sequence built for the model starts with the system
\* instruction message and has exactly one message with role system, even
\* when the client's stored history contains system messages.
C29_SystemFirstAndUnique ==
    lastOp.op = "create_messages" =>
        LET m == lastOp.messages
        IN  /\ m # << >>
            /\ m[1] = Msg("system", SystemPrompt)
            /\ Cardinality({i \in 1 .. Len(m) : m[i].role = "system"}) = 1

\* a prompt built with the history of a client whose stored history holds a
\* system message next to another message
C29_Witness ==
    /\ lastOp.op = "create_messages"
    /\ lastOp.include_history
    /\ lastOp.client = "u1"
    /\ \E i \in 1 .. Len(Item(history, "u1")) : Item(history, "u1")[i].role = "system"
    /\ Len(lastOp.messages) >= 3

C31_StreamRefinesAddPartialResponse ==
    [][\A r \in Reqs, ch \in Chunks :
          (/\ StreamDelta(r, ch)
           /\ r \in serial
           /\ r \notin cleared
           /\ \A r2 \in Reqs : r2 # r => (pc[r2] = "idle" \/ Ended(r2))) =>
              history' = add_partial_response(history, client[r], ch.text)]_vars

\* C32: under any interleaving of two streams and clear_history calls for
\* one client, every delta is accumulated into the assistant message of the
\* request that received it: a delta step of request r never changes the
\* assistant message that another request created and that no clear_history
\* has removed.
C32_NoCrossContamination ==
    [][\A r \in Reqs, ch \in Chunks :
          StreamDelta(r, ch) =>
              \A r2 \in Reqs \ {r} :
                  (kind[r2] = "stream" /\ idx[r2] >= 0 /\ r2 \notin cleared) =>
                      OwnEntry(r2)' = OwnEntry(r2)]_vars

\* C33: a clear_history that runs between two deltas of a stream does not
\* break it: the request does not end in Failed because of the clear, that
\* is, a failed stream never carries the storage's index error.
C33_ClearDoesNotBreakStream ==
    \A r \in Reqs :
        (kind[r] = "stream" /\ pc[r] = "failed" /\ r \in cleared) =>
            Unframe(Last(out[r])) # StreamErrorText(IndexError)

\* C34: when two requests for the same client and the same query run
\* concurrently (the second begins before the first has ended), then under
\* every interleaving of their existence tests and appends, and with no
\* clear_history since the client's requests began, the client's history
\* holds exactly one user message with that query.  The requests are those of the two endpoints;
\* create_completion_stream, which no endpoint calls, makes no existence
\* test and is not called for that client and query.
C34_DuplicateSuppressionRaceFree ==
    \A r \in Reqs, r2 \in Reqs :
        (/\ r < r2
         /\ Started(r) /\ Started(r2)
         /\ r2 \notin serial
         /\ kind[r] = "stream" /\ kind[r2] \in {"stream", "single"}
         /\ client[r2] = client[r]
         /\ query[r2] = query[r]
         /\ \A r3 \in Reqs : ~(/\ kind[r3] = "cstream"
                               /\ client[r3] = client[r]
                               /\ query[r3] = query[r])
         /\ \A r3 \in Reqs : client[r3] = client[r] => r3 \notin cleared) =>
            CountUser(history, client[r], query[r]) = 1

\* two streams of one client with the same query, the second begun while the
\* first was suspended, both past their first delta
C34_Witness ==
    \E r \in Reqs, r2 \in Reqs :
        /\ r < r2
        /\ r2 \notin serial
        /\ kind[r] = "stream" /\ kind[r2] = "stream"
        /\ client[r2] = client[r]
        /\ query[r2] = <<"q">> /\ query[r] = <<"q">>
        /\ cleared = {}
        /\ pulled[r] # << >> /\ pulled[r2] # << >>
        /\ CountUser(history, client[r], <<"q">>) = 1

\* C35: every store operation and every request for one client, under any
\* interleaving, leaves the history of every other client unchanged: a step
\* changes a client's history (or creates its key) only if it is a
\* clear_history for that client or a step of a request of that client.
C35_ClientIsolation ==
    [][\A c \in Clients :
          (\/ Item(history', c) # Item(history, c)
           \/ (c \in DOMAIN history') # (c \in DOMAIN history)) =>
              \/ ClearHistoryEndpoint(c)
              \/ \E r \in Reqs :
                    /\ client'[r] = c
                    /\ (cur = r \/ pc'[r] # pc[r])]_vars

\* client u1 was cleared while a stream of u2 was suspended after a delta:
\* u1's history is empty and u2's still holds its turn
C35_Witness ==
    \E r \in Reqs, r2 \in Reqs :
        /\ client[r] = "u1" /\ client[r2] = "u2"
        /\ r \in cleared /\ r2 \notin cleared
        /\ "u1" \in DOMAIN history /\ Item(history, "u1") = << >>
        /\ kind[r2] = "stream" /\ pc[r2] = "yDelta"
        /\ OwnEntry(r2) = Msg("assistant", Flatten(pulled[r2]))

(***************************************************************************)
(* The size of the prompt, and the trace a request leaves                  *)
(***************************************************************************)
\* C36: for any history length, the messages built for the model hold at
\* most 10 history messages, the most recent non-system ones, so at most 12
\* messages in all: the system message, the history window, and at most one
\* final query or context turn.
C36_BoundedPrompt ==
    lastOp.op = "create_messages" =>
        LET m == lastOp.messages
            stored == SelectSeq(Item(history, lastOp.client), NotSystem)
            window == IF lastOp.include_history /\ lastOp.client # NoClient
                      THEN LastN(stored, DefaultMaxTurns)
                      ELSE << >>
        IN  /\ Len(window) <= DefaultMaxTurns
            /\ Len(m) <= DefaultMaxTurns + 2
            /\ Len(m) - Len(window) \in {1, 2}
            /\ m[1].role = "system"
            /\ SubSeq(m, 2, Len(window) + 1) = window
            /\ Len(m) = Len(window) + 2 => Last(m).role = "user"

\* a prompt of 12 messages built from a stored history of more than 12, some
\* of them system messages
C36_Witness ==
    /\ lastOp.op = "create_messages"
    /\ Len(lastOp.messages) = DefaultMaxTurns + 2
    /\ Len(Item(history, "u1")) > DefaultMaxTurns + 2
    /\ \E i \in 1 .. Len(Item(history, "u1")) : Item(history, "u1")[i].role = "system"
    /\ lastOp.messages[2] # SelectSeq(Item(history, "u1"), NotSystem)[1]

\* C37: every request with a client id ends in Done or Failed, and unless the
\* caller cancelled it, the caller has then received a completion, fallback
\* or error text and the request has committed an assistant message to the
\* client's history.
C37_EveryRequestLeavesATrace ==
    \A r \in Reqs :
        (client[r] # NoClient /\ Ended(r) /\ pc[r] # "cancelled") =>
            /\ pc[r] \in {"done", "failed"}
            /\ out[r] # << >> \/ result[r].kind \in {"ok", "error"}
            /\ committed[r] # << >>

====
